---- MODULE Spec2Model ----
(***************************************************************************)
(* Model of src/src/merge_pdfs.py: the per-folder pipeline process_folder  *)
(* and the batch loop main, run against a Google Drive store.              *)
(*                                                                         *)
(* Every remote call (".execute()", the chunked download) and every call   *)
(* of the merger or the reducer is one step; a remote call either returns  *)
(* or raises.  An exception leaves process_folder, the temporary directory *)
(* is removed on the way out, and main catches it (lines 352-355).         *)
(***************************************************************************)
EXTENDS Naturals, Integers, Sequences, FiniteSets, TLC

-----------------------------------------------------------------------------
(* Bounds of the model *)

MaxPdfs == 3        \* PDF items that exist in the store
MaxFolders == 2     \* longest configured FOLDER_IDS list
MaxDup == 21        \* compiled items named for day 1 that exist before the run
MaxDay == 2         \* calendar days the clock runs through

(* Program constants *)

PageSize == 10      \* pageSize of the duplicate query, line 268

Folders == {"F1", "F2"}
Pdfs == 1..MaxPdfs
Names == {"a.pdf", "b.pdf"}
\* createdTime is an RFC 3339 string; the code compares the strings.  A string
\* is modelled as the sequence of its digits, the instant as its number.
TimeStamps == {<<0, 9>>, <<1, 0>>}
MinChoices == {1, 2, 3}
\* (size of the merged file, size of the reduced file), in KB
SizePairs == {<<1000, 990>>, <<1000, 980>>, <<1000, 970>>,
              <<100, 98>>, <<100, 97>>, <<100, 120>>}

NoFolder == <<"none", 0>>
DryRunSubfolder == <<"dry_run_subfolder", 0>>

VARIABLES
    FOLDER_IDS, MIN_PDFS, DRY_RUN, PDF_COMPRESS,   \* configuration, lines 43-49
    today,              \* the calendar date datetime.now() reports
    pdf,                \* the PDF items of the store
    subfolders,         \* per source folder: number of active compiled subfolders
    compiled,           \* the items inside compiled subfolders
    pc, idx, results,   \* main: position, loop index, results list
    folder_id, listed, pdfs, compiled_folder_id,
    tmp_open, staged, local_paths, date_str, merged, dups, k,
    sizes, reducer, final_upload_path, uploaded,   \* locals of process_folder
    failed_at,          \* the step whose exception is propagating
    attempts, outcomes, \* history: folders process_folder was called on, and
                        \* how each call ended
    calls,              \* history: mutating remote calls issued by the
                        \* current invocation
    store0,             \* history: the store when the current invocation began
    uploadedOn          \* history: per folder, the date of the latest upload
                        \* by an earlier invocation

cfgVars == <<FOLDER_IDS, MIN_PDFS, DRY_RUN, PDF_COMPRESS>>
storeVars == <<pdf, subfolders, compiled>>
localVars == <<folder_id, listed, pdfs, compiled_folder_id, tmp_open, staged,
               local_paths, date_str, merged, dups, k, sizes, reducer,
               final_upload_path, uploaded>>
histVars == <<attempts, outcomes, calls, store0, uploadedOn>>
vars == <<cfgVars, today, storeVars, pc, idx, results, localVars, failed_at,
          histVars>>

-----------------------------------------------------------------------------
(* Pure helpers *)

RECURSIVE SeqOfSet(_)
\* The elements of a finite set of numbers in increasing order.
SeqOfSet(S) ==
    IF S = {} THEN <<>>
    ELSE LET m == CHOOSE x \in S : \A y \in S : x <= y
         IN <<m>> \o SeqOfSet(S \ {m})

RECURSIVE StrLess(_, _)
\* Python's "<" on strings: lexicographic, a proper prefix is smaller.
StrLess(a, b) ==
    IF b = <<>> THEN FALSE
    ELSE IF a = <<>> THEN TRUE
    ELSE IF Head(a) # Head(b) THEN Head(a) < Head(b)
    ELSE StrLess(Tail(a), Tail(b))

SortKey(p) == pdf[p].created

KeyLess(p, q) == StrLess(SortKey(p), SortKey(q))

RECURSIVE InsertSortedUnstable(_, _)
\* Mutant of InsertSorted: x goes in front of the elements with an equal key.
InsertSortedUnstable(s, x) ==
    IF s = <<>> THEN <<x>>
    ELSE IF ~KeyLess(Head(s), x) THEN <<x>> \o s
    ELSE <<Head(s)>> \o InsertSortedUnstable(Tail(s), x)

RECURSIVE InsertSorted(_, _)
\* Insert x behind every element whose key is not greater (stable).
InsertSorted(s, x) ==
    IF s = <<>> THEN <<x>>
    ELSE IF KeyLess(x, Head(s)) THEN <<x>> \o s
    ELSE <<Head(s)>> \o InsertSorted(Tail(s), x)

RECURSIVE SortByCreated(_)
\* list.sort(key=createdTime): ascending and stable.
SortByCreated(s) ==
    IF s = <<>> THEN <<>>
    ELSE InsertSorted(SortByCreated(SubSeq(s, 1, Len(s) - 1)), s[Len(s)])

\* Mutant of ListPdfsInFolder: the "in parents" term of the query is missing.
ListPdfsAnywhere(f) ==
    SeqOfSet({p \in Pdfs : pdf[p].status = "active"})

\* files().list of line 100-119: active PDFs directly in folder f, in the
\* store's order (here: by id).
ListPdfsInFolder(f) ==
    SeqOfSet({p \in Pdfs : pdf[p].parent = f /\ pdf[p].status = "active"})

\* "Compilado de <date>.pdf"
CompiledName(d) == <<"Compilado de", d>>

\* The duplicate query of lines 265-270: active items of the subfolder with
\* today's name; a single page of at most pageSize items is read.
MatchingCompiled(sub, d) ==
    {i \in DOMAIN compiled : /\ compiled[i].parent = sub
                             /\ compiled[i].name = CompiledName(d)
                             /\ ~compiled[i].trashed}

\* Mutant of DuplicatePage: the query is made when nothing is there to find.
DuplicatePageEmpty(sub, d) == <<>>

TakeFirst(s, n) == SubSeq(s, 1, IF Len(s) < n THEN Len(s) ELSE n)

DuplicatePage(sub, d) == TakeFirst(SeqOfSet(MatchingCompiled(sub, d)), PageSize)

RECURSIVE MergePages(_, _)
\* merge_local_pdfs: the pages of every readable path, in order; an
\* unreadable file contributes nothing.  A file's pages carry its item's id.
MergePages(paths, files) ==
    IF paths = <<>> THEN <<>>
    ELSE LET c == files[Head(paths)]
         IN (IF pdf[c].readable THEN <<c>> ELSE <<>>)
            \o MergePages(Tail(paths), files)

\* Mutant of CompressionAdopted: a file of exactly 98% is taken too.
CompressionAdoptedAtThreshold(orig, comp) == comp * 100 <= orig * 98

\* line 324: comp < orig * 0.98.  For file sizes the float product compares
\* like the exact one.
CompressionAdopted(orig, comp) == comp * 100 < orig * 98

-----------------------------------------------------------------------------
(* Initial states *)

EmptyFiles == [n \in {} |-> 0]
NoResult == <<"None", 0>>
DryRunResult == <<"dry_run", 0>>

RECURSIVE SeqsUpTo(_, _)
\* All sequences over S of length at most n.
SeqsUpTo(S, n) ==
    IF n = 0 THEN {<<>>}
    ELSE LET shorter == SeqsUpTo(S, n - 1)
         IN shorter \cup {Append(s, x) : s \in shorter, x \in S}

\* n active items named for day 1 in the first compiled subfolder of f.
ExistingCompiled(f, n) ==
    [i \in 1..n |-> [parent |-> <<f, 1>>, name |-> CompiledName(1),
                     trashed |-> FALSE, path |-> "merged", pages |-> <<>>]]

LocalsInit ==
    /\ folder_id = "none"
    /\ listed = <<>>
    /\ pdfs = <<>>
    /\ compiled_folder_id = NoFolder
    /\ tmp_open = FALSE
    /\ staged = EmptyFiles
    /\ local_paths = <<>>
    /\ date_str = 0
    /\ merged = <<>>
    /\ dups = <<>>
    /\ k = 0
    /\ sizes = <<0, 0>>
    /\ reducer = "none"
    /\ final_upload_path = "none"
    /\ uploaded = NoResult

\* The initial states drawn from the given sets: configured folder lists,
\* stores of PDF items, numbers of compiled subfolders per folder, numbers of
\* existing compiled items, MIN_PDFS, DRY_RUN and PDF_COMPRESS values.
InitWith(folderLists, stores, subCounts, dupCounts, mins, dryRuns, compressions) ==
    /\ FOLDER_IDS \in folderLists
    /\ MIN_PDFS \in mins
    /\ DRY_RUN \in dryRuns
    /\ PDF_COMPRESS \in compressions
    /\ today = 1
    /\ pdf \in stores
    /\ subfolders \in [Folders -> subCounts]
    /\ \E n \in dupCounts :
          compiled = IF subfolders["F1"] > 0 THEN ExistingCompiled("F1", n)
                     ELSE <<>>
    /\ pc = "main"
    /\ idx = 1
    /\ results = <<>>
    /\ LocalsInit
    /\ failed_at = "none"
    /\ attempts = <<>>
    /\ outcomes = <<>>
    /\ calls = <<>>
    /\ store0 = <<pdf, subfolders, compiled>>
    /\ uploadedOn = [f \in Folders |-> 0]

\* Batches: every folder list, over a store with items in both folders.
BatchStores ==
    {[p \in Pdfs |-> [parent |-> IF p <= 2 THEN "F1" ELSE "F2",
                      name |-> IF p % 2 = 1 THEN "a.pdf" ELSE "b.pdf",
                      created |-> IF p % 2 = 1 THEN <<1, 0>> ELSE <<0, 9>>,
                      readable |-> TRUE,
                      status |-> "active"]]}

InitBatch ==
    InitWith(SeqsUpTo(Folders, MaxFolders), BatchStores, 0..1, 0..1,
             {1, 2}, BOOLEAN, {FALSE})

\* Compression: PDF_COMPRESS is set, for one folder and for two.
InitCompression ==
    InitWith({<<"F1">>, <<"F1", "F2">>}, BatchStores, {1}, 0..1, {1, 2},
             BOOLEAN, {TRUE})

\* Documents: one folder holding every item, with any names, creation times
\* and readability.
DocumentStores ==
    [Pdfs -> [parent : {"F1"}, name : Names, created : TimeStamps,
              readable : BOOLEAN, status : {"active"}]]

InitDocuments ==
    InitWith({<<"F1">>}, DocumentStores, {1}, {0}, {2}, BOOLEAN, {FALSE})

\* Repeated runs: the same folder twice, items that arrive between the runs,
\* and any number of compiled items already there.
RepeatStores ==
    {[p \in Pdfs |-> [parent |-> "F1",
                      name |-> IF p % 2 = 1 THEN "a.pdf" ELSE "b.pdf",
                      created |-> <<1, 0>>,
                      readable |-> TRUE,
                      status |-> IF p <= 1 THEN "active" ELSE "absent"]]}

\* The numbers of existing duplicates tried: none, one, around the page the
\* duplicate query reads, and around two pages.
DupChoices ==
    {0, 1, PageSize - 1, PageSize, PageSize + 1, MaxDup - 1, MaxDup}

InitRepeat ==
    InitWith({<<"F1", "F1">>}, RepeatStores, {1}, DupChoices, {1}, {FALSE},
             {FALSE})

\* Subfolders: the same folder twice, with no, one or (pathologically) two
\* compiled subfolders already there.
InitSubfolders ==
    InitWith({<<"F1", "F1">>}, RepeatStores, 0..2, {0}, {1}, BOOLEAN, {FALSE})

Init ==
    \/ InitBatch
    \/ InitCompression
    \/ InitDocuments
    \/ InitRepeat
    \/ InitSubfolders

-----------------------------------------------------------------------------
(* Leaving process_folder *)

ResetLocals ==
    /\ folder_id' = "none"
    /\ listed' = <<>>
    /\ pdfs' = <<>>
    /\ compiled_folder_id' = NoFolder
    /\ tmp_open' = FALSE
    /\ staged' = EmptyFiles
    /\ local_paths' = <<>>
    /\ date_str' = 0
    /\ merged' = <<>>
    /\ dups' = <<>>
    /\ k' = 0
    /\ sizes' = <<0, 0>>
    /\ reducer' = "none"
    /\ final_upload_path' = "none"
    /\ uploaded' = NoResult

\* Mutant of Raise: the temporary directory is not removed on the way out.
RaiseLeavingWorkspace(step) ==
    /\ pc' = "except"
    /\ failed_at' = step
    /\ UNCHANGED <<idx, results, folder_id, listed, pdfs, compiled_folder_id,
                   tmp_open, staged, local_paths, date_str, merged, dups, k,
                   sizes, reducer, final_upload_path, uploaded, attempts,
                   outcomes, store0, uploadedOn>>

\* Mutant of Raise: nothing catches the exception and the process ends.
RaiseUncaught(step) ==
    /\ pc' = "done"
    /\ failed_at' = step
    /\ tmp_open' = FALSE
    /\ staged' = EmptyFiles
    /\ UNCHANGED <<idx, results, folder_id, listed, pdfs, compiled_folder_id,
                   local_paths, date_str, merged, dups, k, sizes, reducer,
                   final_upload_path, uploaded, attempts, outcomes, store0,
                   uploadedOn>>

\* An exception raised in process_folder at `step` propagates to main's try
\* block (line 348); a with-block it leaves removes the temporary directory.
Raise(step) ==
    /\ pc' = "except"
    /\ failed_at' = step
    /\ tmp_open' = FALSE
    /\ staged' = EmptyFiles
    /\ UNCHANGED <<idx, results, folder_id, listed, pdfs, compiled_folder_id,
                   local_paths, date_str, merged, dups, k, sizes, reducer,
                   final_upload_path, uploaded, attempts, outcomes, store0,
                   uploadedOn>>

\* A mutating remote call is issued.
Issue(op, id, ok) == calls' = Append(calls, [op |-> op, id |-> id, ok |-> ok])

\* The invocation that ends uploaded something real on its date.
NoteUpload ==
    uploadedOn' = IF uploaded[1] = "id"
                  THEN [uploadedOn EXCEPT ![folder_id] = date_str]
                  ELSE uploadedOn

-----------------------------------------------------------------------------
(* Environment *)

\* The calendar date advances.  process_folder reads the clock once (line
\* 306), so only the date at that read matters.
Tick ==
    /\ pc = "main"
    /\ idx <= Len(FOLDER_IDS)
    /\ today < MaxDay
    /\ today' = today + 1
    /\ UNCHANGED <<cfgVars, storeVars, pc, idx, results, localVars, failed_at,
                   histVars>>

\* Between two invocations somebody puts a new PDF into its folder.
ExternalAdd ==
    /\ pc = "main"
    /\ idx <= Len(FOLDER_IDS)
    /\ \E p \in Pdfs :
          /\ pdf[p].status = "absent"
          /\ pdf' = [pdf EXCEPT ![p].status = "active"]
    /\ UNCHANGED <<cfgVars, today, subfolders, compiled, pc, idx, results,
                   localVars, failed_at, histVars>>

-----------------------------------------------------------------------------
(* main, lines 344-357 *)

\* lines 347-349: for fid in FOLDER_IDS: res = process_folder(drive, fid)
StartFolder ==
    /\ pc = "main"
    /\ idx <= Len(FOLDER_IDS)
    /\ folder_id' = FOLDER_IDS[idx]
    /\ pc' = "get_folder_name"
    /\ attempts' = Append(attempts, FOLDER_IDS[idx])
    /\ calls' = <<>>
    /\ store0' = <<pdf, subfolders, compiled>>
    /\ UNCHANGED <<cfgVars, today, storeVars, idx, results, listed, pdfs,
                   compiled_folder_id, tmp_open, staged, local_paths, date_str,
                   merged, dups, k, sizes, reducer, final_upload_path, uploaded,
                   failed_at, outcomes, uploadedOn>>

\* lines 352-355: the exception is logged and the loop continues
Catch ==
    /\ pc = "except"
    /\ pc' = "main"
    /\ idx' = idx + 1
    /\ outcomes' = Append(outcomes, "failed")
    /\ failed_at' = "none"
    /\ NoteUpload
    /\ ResetLocals
    /\ UNCHANGED <<cfgVars, today, storeVars, results, attempts, calls, store0>>

\* Mutant of ReturnNone: the test of line 350 is missing and None is appended.
ReturnNoneAppended ==
    /\ pc = "skipped"
    /\ pc' = "main"
    /\ idx' = idx + 1
    /\ results' = Append(results, uploaded)
    /\ outcomes' = Append(outcomes, "skipped")
    /\ ResetLocals
    /\ UNCHANGED <<cfgVars, today, storeVars, failed_at, attempts, calls,
                   store0, uploadedOn>>

\* lines 349-351 after process_folder returned None: nothing is appended
ReturnNone ==
    /\ pc = "skipped"
    /\ pc' = "main"
    /\ idx' = idx + 1
    /\ outcomes' = Append(outcomes, "skipped")
    /\ ResetLocals
    /\ UNCHANGED <<cfgVars, today, storeVars, results, failed_at, attempts,
                   calls, store0, uploadedOn>>

\* line 340, then lines 350-351: the result is truthy and is appended
Return ==
    /\ pc = "return"
    /\ pc' = "main"
    /\ idx' = idx + 1
    /\ results' = Append(results, uploaded)
    /\ outcomes' = Append(outcomes, "uploaded")
    /\ NoteUpload
    /\ ResetLocals
    /\ UNCHANGED <<cfgVars, today, storeVars, failed_at, attempts, calls,
                   store0>>

\* Mutant of Summary: the folders attempted are counted.
SummaryOfAttempts == <<Len(attempts)>>

\* The numbers in the log line of line 357: len(results) and nothing else.
Summary == <<Len(results)>>

\* The loop is exhausted: line 357 logs len(results).
Finish ==
    /\ pc = "main"
    /\ idx > Len(FOLDER_IDS)
    /\ pc' = "done"
    /\ UNCHANGED <<cfgVars, today, storeVars, idx, results, localVars,
                   failed_at, histVars>>

-----------------------------------------------------------------------------
(* process_folder, lines 277-340 *)

\* line 279
GetFolderName ==
    /\ pc = "get_folder_name"
    /\ \/ /\ pc' = "list"
          /\ UNCHANGED <<idx, results, localVars, failed_at, attempts,
                         outcomes, store0, uploadedOn>>
       \/ Raise("get_folder_name")
    /\ UNCHANGED <<cfgVars, today, storeVars, calls>>

\* Mutant of Gate: a folder one item short of the minimum passes.
GateOffByOne(n) == n < MIN_PDFS - 1

\* line 287: too few PDFs
Gate(n) == n < MIN_PDFS

\* lines 283-292: list, gate, sort
ListPdfs ==
    /\ pc = "list"
    /\ \/ LET found == ListPdfsInFolder(folder_id)
          IN /\ listed' = found
             /\ IF Gate(Len(found))
                THEN pc' = "skipped" /\ pdfs' = found
                ELSE pc' = "ensure" /\ pdfs' = SortByCreated(found)
             /\ UNCHANGED <<idx, results, folder_id, compiled_folder_id,
                            tmp_open, staged, local_paths, date_str, merged,
                            dups, k, sizes, reducer, final_upload_path, uploaded,
                            failed_at, attempts, outcomes, store0, uploadedOn>>
       \/ Raise("list")
    /\ UNCHANGED <<cfgVars, today, storeVars, calls>>

\* Entering the with-block of line 297, before the first download.
EnterWorkspace ==
    /\ tmp_open' = TRUE
    /\ k' = 1
    /\ pc' = IF Len(pdfs) = 0 THEN "merge" ELSE "download"

\* Mutant of SubfolderExists: the lookup never finds the subfolder.
SubfolderNeverFound(f) == FALSE

\* lines 137-138: the query returned an active child folder with the name
SubfolderExists(f) == subfolders[f] > 0

\* ensure_compiled_subfolder, lines 128-149: look the subfolder up; the first
\* match is used; a dry run does not create one
EnsureLookup ==
    /\ pc = "ensure"
    /\ \/ /\ SubfolderExists(folder_id) \/ DRY_RUN
          /\ compiled_folder_id' = IF SubfolderExists(folder_id)
                                   THEN <<folder_id, 1>> ELSE DryRunSubfolder
          /\ EnterWorkspace
          /\ UNCHANGED <<idx, results, folder_id, listed, pdfs, staged,
                         local_paths, date_str, merged, dups, sizes, reducer,
                         final_upload_path, uploaded, failed_at, attempts,
                         outcomes, store0, uploadedOn>>
       \/ /\ ~SubfolderExists(folder_id) /\ ~DRY_RUN
          /\ pc' = "create_subfolder"
          /\ UNCHANGED <<idx, results, localVars, failed_at, attempts,
                         outcomes, store0, uploadedOn>>
       \/ Raise("ensure_lookup")
    /\ UNCHANGED <<cfgVars, today, storeVars, calls>>

\* ensure_compiled_subfolder, lines 150-154: create the subfolder
EnsureCreate ==
    /\ pc = "create_subfolder"
    /\ \/ /\ subfolders' = [subfolders EXCEPT ![folder_id] = @ + 1]
          /\ compiled_folder_id' = <<folder_id, subfolders[folder_id] + 1>>
          /\ EnterWorkspace
          /\ Issue("create_folder", 0, TRUE)
          /\ UNCHANGED <<idx, results, folder_id, listed, pdfs, staged,
                         local_paths, date_str, merged, dups, sizes, reducer,
                         final_upload_path, uploaded, failed_at, attempts,
                         outcomes, store0, uploadedOn>>
       \/ /\ Issue("create_folder", 0, FALSE)
          /\ Raise("ensure_create")
          /\ UNCHANGED subfolders
    /\ UNCHANGED <<cfgVars, today, pdf, compiled>>

\* Mutant of DownloadFile: the item is moved, not copied: it is trashed as
\* soon as it is downloaded.
DownloadFileAndTrash(p) ==
    /\ pdf' = [pdf EXCEPT ![p].status = "trashed"]
    /\ Issue("trash_source", p, TRUE)

\* download_file, lines 157-165, when it returns: the store is only read
DownloadFile(p) == UNCHANGED <<pdf, calls>>

\* lines 300-303: download the k-th item to tmp/<its name>
Download ==
    /\ pc = "download"
    /\ k <= Len(pdfs)
    /\ \/ LET p == pdfs[k]
              dest == pdf[p].name
          IN /\ DownloadFile(p)
             /\ staged' = [n \in DOMAIN staged \cup {dest} |->
                              IF n = dest THEN p ELSE staged[n]]
             /\ local_paths' = Append(local_paths, dest)
             /\ k' = k + 1
             /\ pc' = IF k = Len(pdfs) THEN "merge" ELSE "download"
             /\ UNCHANGED <<idx, results, folder_id, listed, pdfs,
                            compiled_folder_id, tmp_open, date_str, merged,
                            dups, sizes, reducer, final_upload_path, uploaded,
                            failed_at, attempts, outcomes, store0, uploadedOn>>
       \/ /\ Raise("download")
          /\ UNCHANGED <<pdf, calls>>
    /\ UNCHANGED <<cfgVars, today, subfolders, compiled>>

\* Mutant of MergeEmpty: an empty merge is not noticed.
MergeEmptyUnchecked(pages) == FALSE

\* line 205: no page was added to the writer
MergeEmpty(pages) == Len(pages) = 0

\* lines 306-309 and merge_local_pdfs; the date is read here, once
Merge ==
    /\ pc = "merge"
    /\ LET pages == MergePages(local_paths, staged)
       IN IF MergeEmpty(pages)
          THEN Raise("merge_empty")
          ELSE /\ date_str' = today
               /\ merged' = pages
               /\ pc' = "dedup"
               /\ UNCHANGED <<idx, results, folder_id, listed, pdfs,
                              compiled_folder_id, tmp_open, staged,
                              local_paths, dups, k, sizes, reducer, final_upload_path,
                              uploaded, failed_at, attempts, outcomes, store0,
                              uploadedOn>>
    /\ UNCHANGED <<cfgVars, today, storeVars, calls>>

\* lines 312-313 and 265-270: the duplicate query (not in a dry run)
DedupList ==
    /\ pc = "dedup"
    /\ \/ LET found == IF DRY_RUN THEN <<>>
                       ELSE DuplicatePage(compiled_folder_id, date_str)
          IN /\ dups' = found
             /\ k' = 1
             /\ pc' = IF found = <<>> THEN "compress" ELSE "dedup_trash"
             /\ UNCHANGED <<idx, results, folder_id, listed, pdfs,
                            compiled_folder_id, tmp_open, staged, local_paths,
                            date_str, merged, sizes, reducer, final_upload_path,
                            uploaded, failed_at, attempts, outcomes, store0,
                            uploadedOn>>
       \/ /\ ~DRY_RUN
          /\ Raise("dedup_list")
    /\ UNCHANGED <<cfgVars, today, storeVars, calls>>

\* lines 271-273: trash the k-th duplicate found
DedupTrash ==
    /\ pc = "dedup_trash"
    /\ k <= Len(dups)
    /\ \/ /\ compiled' = [compiled EXCEPT ![dups[k]].trashed = TRUE]
          /\ Issue("trash_compiled", dups[k], TRUE)
          /\ k' = k + 1
          /\ pc' = IF k = Len(dups) THEN "compress" ELSE "dedup_trash"
          /\ UNCHANGED <<idx, results, folder_id, listed, pdfs,
                         compiled_folder_id, tmp_open, staged, local_paths,
                         date_str, merged, dups, sizes, reducer, final_upload_path,
                         uploaded, failed_at, attempts, outcomes, store0,
                         uploadedOn>>
       \/ /\ Issue("trash_compiled", dups[k], FALSE)
          /\ Raise("dedup_trash")
          /\ UNCHANGED compiled
    /\ UNCHANGED <<cfgVars, today, pdf, subfolders>>

\* What a run of Ghostscript can end in: the subprocess raises or exits with
\* an error, it leaves no or an empty output file, or it writes a file.
ReducerOutcomes == {"raised", "empty", "written"}

\* Mutant of CompressOk: the size of the output file is not looked at.
CompressOkWithoutSizeTest(outcome) == outcome # "raised"

\* compress_pdf_gs, lines 251-256: True only when the output file exists and
\* is not empty; an exception is logged and gives False.
CompressOk(outcome) == outcome = "written"

\* lines 316-330: the upload candidate
Compress ==
    /\ pc = "compress"
    /\ \/ /\ ~PDF_COMPRESS
          /\ final_upload_path' = "merged"
          /\ UNCHANGED <<sizes, reducer>>
       \/ /\ PDF_COMPRESS
          /\ \E outcome \in ReducerOutcomes, sz \in SizePairs :
                LET orig == sz[1]
                    comp == IF outcome = "written" THEN sz[2] ELSE 0
                IN /\ reducer' = outcome
                   /\ IF CompressOk(outcome)
                      THEN /\ sizes' = <<orig, comp>>
                           /\ final_upload_path' =
                                 IF CompressionAdopted(orig, comp)
                                 THEN "compressed" ELSE "merged"
                      ELSE /\ sizes' = <<0, 0>>
                           /\ final_upload_path' = "merged"
    /\ pc' = "upload"
    /\ UNCHANGED <<cfgVars, today, storeVars, idx, results, folder_id, listed,
                   pdfs, compiled_folder_id, tmp_open, staged, local_paths,
                   date_str, merged, dups, k, uploaded, failed_at, histVars>>

\* The statement after the with-block is reached: the workspace is removed.
LeaveWorkspace ==
    /\ tmp_open' = FALSE
    /\ staged' = EmptyFiles
    /\ k' = 1
    /\ pc' = "retire"
    /\ UNCHANGED <<idx, results, folder_id, listed, pdfs, compiled_folder_id,
                   local_paths, date_str, merged, dups, sizes, reducer,
                   final_upload_path, failed_at, attempts, outcomes, store0,
                   uploadedOn>>

\* Mutant of UploadFailed: the upload error is swallowed and the run goes on.
UploadFailedSwallowed ==
    /\ Issue("upload", 0, FALSE)
    /\ uploaded' = NoResult
    /\ LeaveWorkspace
    /\ UNCHANGED compiled

\* lines 175-177 raise: the exception leaves process_folder at line 333
UploadFailed ==
    /\ Issue("upload", 0, FALSE)
    /\ Raise("upload")
    /\ UNCHANGED compiled

\* line 333 and upload_pdf, lines 168-178
Upload ==
    /\ pc = "upload"
    /\ \/ /\ DRY_RUN
          /\ uploaded' = DryRunResult
          /\ LeaveWorkspace
          /\ UNCHANGED <<compiled, calls>>
       \/ /\ ~DRY_RUN
          /\ compiled' = Append(compiled,
                [parent |-> compiled_folder_id, name |-> CompiledName(date_str),
                 trashed |-> FALSE, path |-> final_upload_path,
                 pages |-> merged])
          /\ uploaded' = <<"id", Len(compiled) + 1>>
          /\ Issue("upload", Len(compiled) + 1, TRUE)
          /\ LeaveWorkspace
       \/ /\ ~DRY_RUN
          /\ UploadFailed
    /\ UNCHANGED <<cfgVars, today, pdf, subfolders>>

\* Mutant of MoveToTrash: the DRY_RUN test is missing.
MoveToTrashIgnoringDryRun(p) ==
    /\ pdf' = [pdf EXCEPT ![p].status = "trashed"]
    /\ Issue("trash_source", p, TRUE)

\* move_to_trash, lines 181-186, when the call returns
MoveToTrash(p) ==
    IF DRY_RUN
    THEN UNCHANGED <<pdf, calls>>
    ELSE /\ pdf' = [pdf EXCEPT ![p].status = "trashed"]
         /\ Issue("trash_source", p, TRUE)

\* lines 337-338: trash the k-th discovered item
Retire ==
    /\ pc = "retire"
    /\ k <= Len(pdfs)
    /\ \/ /\ MoveToTrash(pdfs[k])
          /\ k' = k + 1
          /\ pc' = IF k = Len(pdfs) THEN "return" ELSE "retire"
          /\ UNCHANGED <<idx, results, folder_id, listed, pdfs,
                         compiled_folder_id, tmp_open, staged, local_paths,
                         date_str, merged, dups, sizes, reducer, final_upload_path,
                         uploaded, failed_at, attempts, outcomes, store0,
                         uploadedOn>>
       \/ /\ ~DRY_RUN
          /\ Issue("trash_source", pdfs[k], FALSE)
          /\ Raise("retire")
          /\ UNCHANGED pdf
    /\ UNCHANGED <<cfgVars, today, subfolders, compiled>>

Next ==
    \/ Tick
    \/ ExternalAdd
    \/ StartFolder
    \/ Catch
    \/ ReturnNone
    \/ Return
    \/ Finish
    \/ GetFolderName
    \/ ListPdfs
    \/ EnsureLookup
    \/ EnsureCreate
    \/ Download
    \/ Merge
    \/ DedupList
    \/ DedupTrash
    \/ Compress
    \/ Upload
    \/ Retire

Spec == Init /\ [][Next]_vars

\* A first installation: every folder list, no compiled subfolder yet, an
\* unreadable item in F1 and an item that arrives while the batch runs.
LiveStores ==
    {[p \in Pdfs |-> [parent |-> IF p <= 2 THEN "F1" ELSE "F2",
                      name |-> IF p % 2 = 1 THEN "a.pdf" ELSE "b.pdf",
                      created |-> IF p % 2 = 1 THEN <<1, 0>> ELSE <<0, 9>>,
                      readable |-> p # 2,
                      status |-> IF p = 1 THEN "absent" ELSE "active"]]}

InitLive ==
    InitWith(SeqsUpTo(Folders, MaxFolders), LiveStores, {0}, {0}, {1},
             BOOLEAN, BOOLEAN)

\* A step of the program itself: main's loop or the pipeline it is in.
ProgramStep ==
    \/ StartFolder
    \/ Catch
    \/ ReturnNone
    \/ Return
    \/ Finish
    \/ GetFolderName
    \/ ListPdfs
    \/ EnsureLookup
    \/ EnsureCreate
    \/ Download
    \/ Merge
    \/ DedupList
    \/ DedupTrash
    \/ Compress
    \/ Upload
    \/ Retire

\* The interpreter keeps running main: a statement that can execute does, and
\* every call it makes returns or raises.  Nothing is assumed of the clock or
\* of other users of the store.
LiveSpec == InitLive /\ [][Next]_vars /\ WF_vars(ProgramStep)

-----------------------------------------------------------------------------
(* Notions the properties use *)

InFolder == pc \notin {"main", "done"}

\* The merge has succeeded in the current invocation.
PastMerge == pc \in {"dedup", "dedup_trash", "compress", "upload", "retire",
                     "return"}

\* The items discovery found, as the store held them when the invocation began.
CountAtStart(f) ==
    Cardinality({p \in Pdfs : /\ store0[1][p].parent = f
                              /\ store0[1][p].status = "active"})

Readable(s) == {i \in DOMAIN s : pdf[s[i]].readable}

\* The instant a createdTime string denotes.
Instant(t) == 10 * t[1] + t[2]

PositionIn(s, x) == CHOOSE i \in DOMAIN s : s[i] = x

IssuedOps == {calls[i].op : i \in DOMAIN calls}

ActiveCompiledToday ==
    Cardinality(MatchingCompiled(compiled_folder_id, date_str))

-----------------------------------------------------------------------------
(* Properties *)

\* C1: main calls process_folder exactly once for every configured folder id,
\* in the configured order; a failure of one folder, at any step, is caught
\* and the next folder is still attempted.
C1_EveryFolderAttemptedInOrder ==
    /\ attempts = SubSeq(FOLDER_IDS, 1, Len(attempts))
    /\ Len(attempts) = IF InFolder THEN idx ELSE idx - 1
    /\ (pc = "main" /\ idx <= Len(FOLDER_IDS)) => ENABLED StartFolder
    /\ pc = "done" => attempts = FOLDER_IDS /\ Len(outcomes) = Len(FOLDER_IDS)

C1_Witness ==
    /\ pc = "done"
    /\ Len(FOLDER_IDS) = MaxFolders
    /\ outcomes[1] = "failed"
    /\ attempts = FOLDER_IDS

\* C2: a folder with fewer than MIN_PDFS discovered items is skipped (None is
\* returned) and no remote mutation is issued: no subfolder is created, nothing
\* is uploaded, nothing is trashed.
C2_BelowMinimumSkipsWithoutMutation ==
    (InFolder /\ CountAtStart(folder_id) < MIN_PDFS) =>
        /\ pc \in {"get_folder_name", "list", "skipped", "except"}
        /\ pc = "except" => failed_at \in {"get_folder_name", "list"}
        /\ calls = <<>>
        /\ <<pdf, subfolders, compiled>> = store0
        /\ uploaded = NoResult

C2_Witness ==
    /\ pc = "skipped"
    /\ Len(listed) = 1
    /\ MIN_PDFS = 2
    /\ calls = <<>>

\* C3: two runs of the pipeline on the same folder on the same date leave
\* exactly one active compiled item named for that date in the subfolder.
C3_TwoRunsLeaveOneCompiled ==
    (pc = "return" /\ ~DRY_RUN /\ uploadedOn[folder_id] = date_str) =>
        ActiveCompiledToday = 1

\* C4: however many active items with today's name exist, the duplicate step
\* retires all of them before the upload, so that once the upload is made at
\* most one active item has that name.
C4_AtMostOneCompiledAfterUpload ==
    /\ (pc = "upload" /\ ~DRY_RUN) => ActiveCompiledToday = 0
    /\ (pc \in {"retire", "return"} /\ ~DRY_RUN) => ActiveCompiledToday <= 1

\* C5: in a dry run no mutating remote call is ever issued and the store is
\* left as it was, and a run that got past the gate and merged a page returns
\* a result.
C5_DryRunIssuesNoMutation ==
    DRY_RUN =>
        /\ calls = <<>>
        /\ InFolder => <<pdf, subfolders, compiled>> = store0
        /\ pc \notin {"create_subfolder", "dedup_trash"}
        /\ pc = "except" => failed_at \in {"get_folder_name", "list",
                                           "ensure_lookup", "download",
                                           "merge_empty"}
        /\ pc = "return" => uploaded = DryRunResult

C5_Witness ==
    /\ DRY_RUN
    /\ pc = "return"
    /\ uploaded = DryRunResult
    /\ subfolders[folder_id] = 0
    /\ Len(pdfs) >= 2

\* C6: when every input is unreadable the merge fails with the merge-empty
\* error, nothing is uploaded and no source item is trashed.
C6_AllUnreadableFailsCleanly ==
    /\ PastMerge => Readable(pdfs) # {}
    /\ (pc = "except" /\ failed_at = "merge_empty") =>
          /\ IssuedOps \subseteq {"create_folder"}
          /\ pdf = store0[1]
          /\ compiled = store0[3]
          /\ uploaded = NoResult

C6_Witness ==
    /\ pc = "except"
    /\ failed_at = "merge_empty"
    /\ Len(pdfs) >= 2
    /\ Readable(pdfs) = {}

\* C7: when some but not all of the discovered inputs are unreadable the merge
\* succeeds and holds the pages of exactly the readable ones, and when the run
\* has uploaded and returns, every discovered item is trashed.
C7_PartialMergeRetiresAll ==
    (Readable(pdfs) # {} /\ Readable(pdfs) # DOMAIN pdfs) =>
        /\ ~(pc = "except" /\ failed_at = "merge_empty")
        /\ PastMerge => {merged[i] : i \in DOMAIN merged}
                            = {pdfs[i] : i \in Readable(pdfs)}
        /\ (pc = "return" /\ ~DRY_RUN) =>
              \A i \in DOMAIN pdfs : pdf[pdfs[i]].status = "trashed"

C9_ReducedFileOnlyBelow98Percent ==
    (PDF_COMPRESS /\ sizes # <<0, 0>> /\ pc \in {"upload", "retire", "return"}) =>
        /\ final_upload_path = "compressed" <=> sizes[2] * 100 < sizes[1] * 98
        /\ final_upload_path = "merged" <=> sizes[2] * 100 >= sizes[1] * 98
        /\ sizes = <<1000, 990>> => final_upload_path = "merged"
        /\ sizes = <<1000, 970>> => final_upload_path = "compressed"
        /\ sizes = <<1000, 980>> => final_upload_path = "merged"
        /\ (uploaded[1] = "id") =>
              compiled[uploaded[2]].path = final_upload_path

C9_Witness ==
    /\ pc = "retire"
    /\ PDF_COMPRESS
    /\ sizes = <<100, 98>>
    /\ uploaded[1] = "id"
    /\ compiled[uploaded[2]].path = "merged"

\* C10: no discovered source item is trashed before the upload of the same
\* invocation has succeeded; a run that fails at any step up to and including
\* the upload leaves every source item as it was.
C10_SourcesTrashedOnlyAfterUpload ==
    /\ \A i \in DOMAIN calls :
          calls[i].op = "trash_source" =>
             \E j \in 1..(i - 1) : calls[j].op = "upload" /\ calls[j].ok
    /\ (InFolder /\ pc \notin {"retire", "return"}
                 /\ ~(pc = "except" /\ failed_at = "retire")) =>
          pdf = store0[1]

C10_Witness ==
    /\ pc = "except"
    /\ failed_at = "upload"
    /\ Len(pdfs) >= 2
    /\ \A i \in DOMAIN pdfs : pdf[pdfs[i]].status = "active"

\* C11: an invocation that stages files has a workspace of its own, empty when
\* it is entered, and the workspace with every file in it is gone when the
\* invocation ends, by success or by a failure at any step.
C11_WorkspaceRemovedAtEnd ==
    /\ pc \in {"download", "merge", "dedup", "dedup_trash", "compress",
               "upload"} => tmp_open
    /\ pc \in {"main", "done", "skipped", "except", "retire", "return"} =>
          ~tmp_open /\ staged = EmptyFiles
    /\ (pc = "download" /\ k = 1) => staged = EmptyFiles
    /\ ~tmp_open => staged = EmptyFiles

C11_Witness ==
    /\ pc = "except"
    /\ failed_at = "download"
    /\ k = 2
    /\ Len(local_paths) = 1
    /\ ~tmp_open
    /\ staged = EmptyFiles

NumOutcomes(o) == Cardinality({i \in DOMAIN outcomes : outcomes[i] = o})

Items(s) == {s[i] : i \in DOMAIN s}

\* C14: in an invocation for folder F every item discovered, staged, merged or
\* trashed as a source is an item that was active and directly in F when the
\* invocation began, the subfolder used is a child of F, and the compiled
\* item is uploaded into it; a compiled item never holds pages of an item of
\* another folder.
C14_NoCrossFolderMixing ==
    /\ InFolder =>
          /\ \A p \in Items(pdfs) : /\ store0[1][p].parent = folder_id
                                    /\ store0[1][p].status = "active"
          /\ \A n \in DOMAIN staged : staged[n] \in Items(pdfs)
          /\ Items(merged) \subseteq Items(pdfs)
          /\ \/ compiled_folder_id \in {NoFolder, DryRunSubfolder}
             \/ compiled_folder_id[1] = folder_id
          /\ \A i \in DOMAIN calls :
                calls[i].op = "trash_source" => calls[i].id \in Items(pdfs)
          /\ \A p \in Pdfs :
                pdf[p].status # store0[1][p].status => pdf[p].parent = folder_id
          /\ uploaded[1] = "id" =>
                /\ compiled[uploaded[2]].parent = compiled_folder_id
                /\ compiled[uploaded[2]].parent[1] = folder_id
    /\ \A c \in DOMAIN compiled :
          \A p \in Items(compiled[c].pages) :
             pdf[p].parent = compiled[c].parent[1]

C14_Witness ==
    /\ FOLDER_IDS = <<"F1", "F2">>
    /\ idx = 2
    /\ pc = "return"
    /\ uploadedOn["F1"] > 0
    /\ uploaded[1] = "id"
    /\ pdf[3].status = "trashed"
    /\ pdf[1].status = "trashed"

\* The compiled items named for the invocation's date that were active in its
\* subfolder when the invocation began.
PriorDuplicates ==
    {c \in DOMAIN store0[3] : /\ store0[3][c].parent = compiled_folder_id
                              /\ store0[3][c].name = CompiledName(date_str)
                              /\ ~store0[3][c].trashed}

LastFolder == IF attempts = <<>> THEN "none" ELSE attempts[Len(attempts)]

\* C16: an invocation creates a compiled subfolder only in a run that is not
\* a dry run and only when its folder had none, and then exactly one; a folder
\* that has one or more keeps its number and the first is the one used.  So a
\* sequence of invocations never takes a folder's subfolders above one.
C16_SubfolderCreatedOnlyWhenAbsent ==
    /\ \A f \in Folders :
          \/ subfolders[f] = store0[2][f]
          \/ /\ f = LastFolder
             /\ ~DRY_RUN
             /\ store0[2][f] = 0
             /\ subfolders[f] = 1
    /\ \A i \in DOMAIN calls :
          (calls[i].op = "create_folder" /\ calls[i].ok) =>
              /\ store0[2][LastFolder] = 0
              /\ subfolders[LastFolder] = 1
              /\ \A j \in DOMAIN calls : calls[j].op = "create_folder" => j = i
    /\ (InFolder /\ compiled_folder_id \notin {NoFolder, DryRunSubfolder}) =>
          /\ compiled_folder_id = <<folder_id, 1>>
          /\ subfolders[folder_id] >= 1

C16_Witness ==
    /\ ~DRY_RUN
    /\ idx = 2
    /\ pc = "return"
    /\ store0[2]["F1"] = 1
    /\ subfolders["F1"] = 1
    /\ "create_folder" \notin IssuedOps
    /\ uploadedOn["F1"] > 0
    /\ compiled_folder_id = compiled[1].parent
    /\ compiled[1].pages # <<>>

\* C17: the batch run always completes: whichever folders fail, and at
\* whichever step, main reaches its final log line, and by then every
\* configured folder's pipeline has ended as uploaded, skipped or failed.
C17_BatchAlwaysCompletes ==
    <>(/\ pc = "done"
       /\ Len(outcomes) = Len(FOLDER_IDS)
       /\ attempts = FOLDER_IDS
       /\ \A i \in DOMAIN outcomes :
             outcomes[i] \in {"uploaded", "skipped", "failed"})

C17_Witness ==
    /\ pc = "done"
    /\ Len(FOLDER_IDS) = MaxFolders
    /\ outcomes[1] = "failed"
    /\ outcomes[Len(FOLDER_IDS)] = "failed"

\* C18: with compression enabled, when the reducer raises, exits with an
\* error or leaves no or an empty output, the merged file stays the upload
\* candidate, the pipeline goes on to the upload, and a failure of the folder
\* after that can only be one of the upload or of the trashing of sources.
C18_CompressionFailureNotFatal ==
    /\ pc = "compress" => ENABLED Compress
    /\ reducer \in {"raised", "empty"} =>
          /\ PDF_COMPRESS
          /\ pc \in {"upload", "retire", "return", "except"}
          /\ pc = "upload" => ENABLED Upload
          /\ pc = "except" => failed_at \in {"upload", "retire"}
          /\ final_upload_path = "merged"
          /\ uploaded[1] = "id" => compiled[uploaded[2]].path = "merged"

C18_Witness ==
    /\ reducer = "empty"
    /\ pc = "return"
    /\ uploaded[1] = "id"
    /\ compiled[uploaded[2]].path = "merged"
    /\ \A p \in Items(pdfs) : pdf[p].status = "trashed"

\* C19: the k-th local path handed to the merger holds the k-th ordered item,
\* whatever the display names, and so the merged document holds the pages of
\* the readable discovered items, each once, in order.
C19_StagingOneToOne ==
    /\ pc = "merge" =>
          /\ Len(local_paths) = Len(pdfs)
          /\ \A i \in DOMAIN local_paths : staged[local_paths[i]] = pdfs[i]
    /\ PastMerge => merged = SelectSeq(pdfs, LAMBDA p : pdf[p].readable)

\* C20: an invocation that failed while downloading or merging has trashed
\* nothing and uploaded nothing: no item and no compiled item differs from
\* what the store held when the invocation began, and the only call that
\* changed the store, if any, created the compiled subfolder.
C20_EarlyFailureOnlyCreatesSubfolder ==
    (pc = "except" /\ failed_at \in {"download", "merge_empty"}) =>
        /\ IssuedOps \subseteq {"create_folder"}
        /\ pdf = store0[1]
        /\ compiled = store0[3]
        /\ uploaded = NoResult
        /\ \A f \in Folders :
              \/ subfolders[f] = store0[2][f]
              \/ /\ f = folder_id
                 /\ "create_folder" \in IssuedOps
                 /\ subfolders[f] = store0[2][f] + 1

C20_Witness ==
    /\ pc = "except"
    /\ failed_at = "download"
    /\ Len(local_paths) >= 1
    /\ "create_folder" \in IssuedOps
    /\ subfolders[folder_id] = 1
    /\ \A p \in Items(pdfs) : pdf[p].status = "active"

====
